---- MODULE Spec2Model ----
(***************************************************************************)
(* Model of the Real-time Monitor System (RMS): the monitoring engine of   *)
(* src/RealTimeMonitor.py (registry, poll loop, aggregator) and the        *)
(* subscriber server of src/WebSocketServer.py (event loop tasks, fan-out, *)
(* control protocol).                                                      *)
(*                                                                         *)
(* Conventions.  A Python dict is a TLA+ function whose DOMAIN is the set  *)
(* of its keys; dict.get(k, d) is Get(dict, k, d).  The registry dict      *)
(* monitored_accounts keeps insertion order, so it is the pair acct_order  *)
(* (the keys in insertion order) and monitors (key -> value).  Floats are  *)
(* integers: money in whole units, volumes in tenths of a lot.  None is 0  *)
(* for an instant (clock starts at 1) and NoneVal for a dict.              *)
(* datetime.now() reads the variable clock.                                *)
(***************************************************************************)
EXTENDS Integers, Sequences, FiniteSets, TLC

(***************************************************************************)
(* Bounds and universes                                                    *)
(***************************************************************************)
MaxTicks == 2            \* ticks per run (caps total_updates and clock)
MaxFrames == 2           \* frames delivered after which no new command or broadcast begins
MaxCallbacks == 2        \* length of the engine's callback list
CadenceTicks == 11       \* ticks of a run that observes the closed-trades cadence
SliceTicks == 6          \* ticks of a run that reaches the second closed-trades fetch

Ids == {1001, 1002}                      \* account identifiers
MonThreads == {"m1", "m2"}               \* poll-loop threads start() can launch
Callers == {"c1", "c2"}                  \* threads of control callers
LoopThread == "loop"                     \* the asyncio event-loop thread
Threads == MonThreads \cup Callers \cup {LoopThread}
Subs == {"s1", "s2"}                     \* subscriber connections
Symbols == {"EURUSD", "GBPUSD"}

TradesCycle == 5         \* closed trades are fetched when total_updates % 5 = 0
TradesLimit == 100       \* TradeMonitor.to_dict keeps trades[:100]
HistoryWindow == 30      \* TradeMonitor.from_date = creation time - 30 days

NoneVal == [none |-> TRUE]

Get(d, k, default) == IF k \in DOMAIN d THEN d[k] ELSE default

Range(s) == {s[i] : i \in DOMAIN s}

Min(a, b) == IF a <= b THEN a ELSE b

RECURSIVE SeqFilterNe(_, _)
\* the keys of a dict after "del d[x]": order of the others kept
SeqFilterNe(s, x) ==
    IF s = <<>> THEN <<>>
    ELSE IF Head(s) = x THEN SeqFilterNe(Tail(s), x)
    ELSE <<Head(s)>> \o SeqFilterNe(Tail(s), x)

(***************************************************************************)
(* Broker Client results (the external Services.MT5ManagerActions).  A     *)
(* call returns a value (kind "ok"; a falsy value is kind "empty") or      *)
(* raises (kind "raise").                                                  *)
(***************************************************************************)
D1 == [balance |-> 500, equity |-> 520, margin |-> 100]
D2 == [balance |-> 700, equity |-> 650, margin |-> 0, free_margin |-> 650,
       margin_level |-> 0, profit |-> -50, group |-> "demo", leverage |-> 100]

PBuy == [symbol |-> "EURUSD", volume |-> 10, type |-> 0]
PSell == [symbol |-> "EURUSD", volume |-> 4, type |-> 1]
PCapBuy == [symbol |-> "EURUSD", Vol |-> 10, Type |-> 0]
PCapSell == [symbol |-> "EURUSD", Vol |-> 4, Type |-> 1]
PNoSym == [volume |-> 10, type |-> 0]
PGbp == [symbol |-> "GBPUSD", volume |-> 20, type |-> 1]

RaiseOut == [kind |-> "raise", val |-> NoneVal]
EmptyOut == [kind |-> "empty", val |-> NoneVal]
OkOut(v) == [kind |-> "ok", val |-> v]
ListOut(l) == IF l = <<>> THEN [kind |-> "empty", val |-> <<>>] ELSE OkOut(l)
RaiseList == [kind |-> "raise", val |-> <<>>]
\* the call was not made
SkippedOut == [kind |-> "skipped", val |-> <<>>]
\* no account handled yet
NoRpc == [login_id |-> 0]

\* outcomes of get_account_details
DetailsAll == {RaiseOut, EmptyOut, OkOut(D1), OkOut(D2)}
DetailsFew == {RaiseOut, OkOut(D1)}
DetailsOne == {OkOut(D1)}
\* outcomes of get_open_positions
PositionsAgg ==
    {ListOut(l) : l \in {<<>>, <<PBuy, PSell>>, <<PCapBuy, PCapSell>>,
                         <<PNoSym>>, <<PGbp>>}}
PositionsFew == {RaiseList, ListOut(<<>>), ListOut(<<PBuy>>)}
PositionsOne == {ListOut(<<PBuy>>)}
\* outcomes of get_closed_trades
TradesFew == {RaiseList, ListOut(<<>>), ListOut(<<"t1">>)}
TradesOne == {ListOut(<<"t1">>)}

VARIABLES
    manager,        \* RealTimeMonitorSystem.manager: "none" | "ok" | "dead"
    running,        \* RealTimeMonitorSystem.running
    acct_order,     \* keys of monitored_accounts, in insertion order
    monitors,       \* monitored_accounts: login_id -> its three monitors
    stats,          \* RealTimeMonitorSystem.stats
    callbacks,      \* RealTimeMonitorSystem._callbacks
    lock,           \* RealTimeMonitorSystem._lock: "free" or the holding thread
    clock,          \* wall clock read by datetime.now()
    pc,             \* each thread's position
    after,          \* each thread's continuation after a nested call returns
    tick_i,         \* _update_all_accounts: position in the registry iteration
    accounts_data,  \* _update_all_accounts: the list built by the tick
    cb_log,         \* the callbacks invoked by the last tick: kind, argument, outcome
    snap_i,         \* get_all_accounts_snapshot: position in the key iteration
    snapshots,      \* get_all_accounts_snapshot: the mapping being built
    ret,            \* value returned by each thread's last engine call
    removed_ids,    \* history: ids removed and not added again
    rpc,            \* history: the broker results of the account the tick in
                    \* progress handled last
    trade_log,      \* history: per monitored id, the tick index at which it was
                    \* added and its closed-trades fetch attempts since then
    ws_state,       \* WebSocketServer.start: "new" | "serving" | "failed"
    clients,        \* WebSocketServer.clients
    conn,           \* each subscriber's connection: "none" | "open" | "closed"
    hpc,            \* each subscriber's handle_client task position
    cur,            \* the subscriber whose task the event loop is running
    frames,         \* frames each subscriber has received, in order
    bcast,          \* the broadcast task, or NoTask
    call            \* history: the control operation made last, where recorded

engineVars == <<manager, running, acct_order, monitors, stats, callbacks, lock,
                clock, pc, after, tick_i, accounts_data, cb_log, snap_i,
                snapshots, ret, removed_ids, trade_log, rpc>>
wsVars == <<ws_state, clients, conn, hpc, cur, frames, bcast>>
vars == <<engineVars, wsVars, call>>

(***************************************************************************)
(* Account Record: AccountMonitor, PositionMonitor, TradeMonitor           *)
(***************************************************************************)
AccountMonitor_init(id) ==
    [login_id |-> id, balance |-> 0, equity |-> 0, margin |-> 0,
     free_margin |-> 0, margin_level |-> 0, profit |-> 0, last_update |-> 0,
     status |-> "active", group |-> "", leverage |-> 0]

\* an update() that clears the record when the fetch gives nothing
AccountMonitor_update_clearing(a, out, now) ==
    IF out.kind = "raise" THEN [AccountMonitor_init(a.login_id) EXCEPT !.status = "error"]
    ELSE IF out.kind = "empty"
    THEN [AccountMonitor_init(a.login_id) EXCEPT !.status = "unavailable"]
    ELSE [a EXCEPT !.last_update = now, !.status = "active"]

\* an update() that leaves the record alone when the fetch gives nothing
AccountMonitor_update_silent(a, out, now) ==
    IF out.kind = "ok" THEN AccountMonitor_update_clearing(a, out, now) ELSE a

\* the monitor after update(); out is the result of get_account_details
AccountMonitor_update(a, out, now) ==
    IF out.kind = "raise" THEN [a EXCEPT !.status = "error"]
    ELSE IF out.kind = "empty" THEN [a EXCEPT !.status = "unavailable"]
    ELSE [a EXCEPT !.balance = Get(out.val, "balance", 0),
                   !.equity = Get(out.val, "equity", 0),
                   !.margin = Get(out.val, "margin", 0),
                   !.free_margin = Get(out.val, "free_margin", 0),
                   !.margin_level = Get(out.val, "margin_level", 0),
                   !.profit = Get(out.val, "profit", 0),
                   !.group = Get(out.val, "group", ""),
                   !.leverage = Get(out.val, "leverage", 0),
                   !.last_update = now,
                   !.status = "active"]

AccountMonitor_to_dict(a) == a

\* an update() that returns the dict whatever the fetch gave
AccountMonitor_update_result_always(a, out, now) ==
    AccountMonitor_to_dict(AccountMonitor_update(a, out, now))

\* what update() returns: the dict, or None
AccountMonitor_update_result(a, out, now) ==
    IF out.kind = "ok" THEN AccountMonitor_to_dict(AccountMonitor_update(a, out, now))
    ELSE NoneVal

PositionMonitor_init(id) == [login_id |-> id, positions |-> <<>>, last_update |-> 0]

\* an update() that empties the slice when the call raises
PositionMonitor_update_emptying(p, out, now) ==
    IF out.kind = "ok" THEN [p EXCEPT !.positions = out.val, !.last_update = now]
    ELSE [p EXCEPT !.positions = <<>>]

PositionMonitor_update(p, out, now) ==
    IF out.kind = "raise" THEN p
    ELSE IF out.kind = "empty" THEN [p EXCEPT !.positions = <<>>]
    ELSE [p EXCEPT !.positions = out.val, !.last_update = now]

PositionMonitor_to_dict(p) ==
    [login_id |-> p.login_id,
     positions |-> p.positions,
     position_count |-> Len(p.positions),
     symbols |-> {Get(p.positions[i], "symbol", "") : i \in DOMAIN p.positions},
     last_update |-> p.last_update]

TradeMonitor_init(id, now) ==
    [login_id |-> id, trades |-> <<>>, last_update |-> 0,
     from_date |-> now - HistoryWindow]

TradeMonitor_update(t, out, now) ==
    IF out.kind = "raise" THEN t
    ELSE IF out.kind = "empty" THEN [t EXCEPT !.trades = <<>>]
    ELSE [t EXCEPT !.trades = out.val, !.last_update = now]

\* what update() returns: the stored list, or [] on an error
TradeMonitor_update_result(t, out, now) ==
    IF out.kind = "raise" THEN <<>> ELSE TradeMonitor_update(t, out, now).trades

\* get_daily_stats looks for attributes Time/Volume/Profit, which the trade
\* mappings do not have: no trade counts as today's
TradeMonitor_get_daily_stats(t) ==
    [trade_count |-> 0, total_volume |-> 0, total_profit |-> 0]

TradeMonitor_to_dict(t) ==
    [login_id |-> t.login_id,
     trade_count |-> Len(t.trades),
     trades |-> SubSeq(t.trades, 1, Min(TradesLimit, Len(t.trades))),
     daily_stats |-> TradeMonitor_get_daily_stats(t),
     last_update |-> t.last_update]

NewMonitors(id, now) ==
    [account |-> AccountMonitor_init(id),
     positions |-> PositionMonitor_init(id),
     trades |-> TradeMonitor_init(id, now)]

\* the dict get_account_snapshot builds for a monitored id
SnapshotOf(id) ==
    [account |-> AccountMonitor_to_dict(monitors[id].account),
     positions |-> PositionMonitor_to_dict(monitors[id].positions),
     trades |-> TradeMonitor_to_dict(monitors[id].trades)]

get_stats ==
    [total_updates |-> stats.total_updates,
     last_update |-> stats.last_update,
     errors |-> stats.errors,
     monitored_count |-> stats.monitored_count,
     running |-> running,
     update_interval |-> 5]

\* utils.calculate_margin_level: (equity / margin) * 100, and 0 on margin 0
calculate_margin_level(equity, margin) ==
    IF margin = 0 THEN 0 ELSE (equity * 100) \div margin

(***************************************************************************)
(* Aggregator helpers of PositionMonitor                                   *)
(***************************************************************************)
RECURSIVE FilterBySymbol(_, _)
\* PositionMonitor.get_positions_by_symbol: pos.get('symbol') == symbol
FilterBySymbol(positions, symbol) ==
    IF positions = <<>> THEN <<>>
    ELSE LET pos == Head(positions)
             rest == FilterBySymbol(Tail(positions), symbol)
         IN IF "symbol" \in DOMAIN pos /\ pos["symbol"] = symbol
            THEN <<pos>> \o rest ELSE rest

RECURSIVE SumVolume(_, _)
\* the value volume_by_symbol[symbol] accumulates over the positions
SumVolume(positions, symbol) ==
    IF positions = <<>> THEN 0
    ELSE (IF Get(Head(positions), "symbol", "") = symbol
          THEN Get(Head(positions), "volume", 0) ELSE 0)
         + SumVolume(Tail(positions), symbol)

\* PositionMonitor.get_total_volume_by_symbol
get_total_volume_by_symbol(p) ==
    [symbol \in {Get(p.positions[i], "symbol", "") : i \in DOMAIN p.positions}
        |-> SumVolume(p.positions, symbol)]

(***************************************************************************)
(* Registry: add_account, remove_account                                   *)
(***************************************************************************)
Idle(t) == t \in Callers /\ pc[t] = "idle"

\* the record of an operation op made by b with argument arg; pre is what
\* the operation found: the id registered, the engine running, the
\* connection open, the record registered under the id (see Found)
Logged(op, b, arg, pre) ==
    IF call.op = "off" THEN call
    ELSE [op |-> op, by |-> b, arg |-> arg, pre |-> pre, seq |-> 1 - call.seq]

\* the record registered under id, if any: <<record>> or <<>>
Found(id) == IF id \in DOMAIN monitors THEN <<monitors[id]>> ELSE <<>>

\* an add that installs a new record whether or not the id is registered
registry_add_resetting(id) ==
    IF id \in DOMAIN monitors
    THEN /\ monitors' = [monitors EXCEPT ![id] = NewMonitors(id, clock)]
         /\ UNCHANGED <<acct_order, stats, removed_ids, trade_log>>
    ELSE /\ acct_order' = Append(acct_order, id)
         /\ monitors' = [k \in DOMAIN monitors \cup {id} |->
                            IF k = id THEN NewMonitors(id, clock) ELSE monitors[k]]
         /\ stats' = [stats EXCEPT !.monitored_count = Len(acct_order) + 1]
         /\ removed_ids' = removed_ids \ {id}
         /\ trade_log' = [k \in DOMAIN monitors \cup {id} |->
                             IF k = id THEN [since |-> stats.total_updates, fetches |-> 0]
                             ELSE trade_log[k]]

registry_add(id) ==
    IF id \in DOMAIN monitors
    THEN UNCHANGED <<acct_order, monitors, stats, removed_ids, trade_log>>
    ELSE /\ acct_order' = Append(acct_order, id)
         /\ monitors' = [k \in DOMAIN monitors \cup {id} |->
                            IF k = id THEN NewMonitors(id, clock) ELSE monitors[k]]
         /\ stats' = [stats EXCEPT !.monitored_count = Len(acct_order) + 1]
         /\ removed_ids' = removed_ids \ {id}
         /\ trade_log' = [k \in DOMAIN monitors \cup {id} |->
                             IF k = id THEN [since |-> stats.total_updates, fetches |-> 0]
                             ELSE trade_log[k]]

\* a remove that leaves stats['monitored_count'] as it was
registry_remove_uncounted(id) ==
    IF id \notin DOMAIN monitors
    THEN UNCHANGED <<acct_order, monitors, stats, removed_ids, trade_log>>
    ELSE /\ acct_order' = SeqFilterNe(acct_order, id)
         /\ monitors' = [k \in DOMAIN monitors \ {id} |-> monitors[k]]
         /\ stats' = stats
         /\ removed_ids' = removed_ids \cup {id}
         /\ trade_log' = [k \in DOMAIN monitors \ {id} |-> trade_log[k]]

registry_remove(id) ==
    IF id \notin DOMAIN monitors
    THEN UNCHANGED <<acct_order, monitors, stats, removed_ids, trade_log>>
    ELSE /\ acct_order' = SeqFilterNe(acct_order, id)
         /\ monitors' = [k \in DOMAIN monitors \ {id} |-> monitors[k]]
         /\ stats' = [stats EXCEPT !.monitored_count = Len(acct_order) - 1]
         /\ removed_ids' = removed_ids \cup {id}
         /\ trade_log' = [k \in DOMAIN monitors \ {id} |-> trade_log[k]]

add_account(t, id) ==
    /\ Idle(t)
    /\ lock = "free"
    /\ registry_add(id)
    /\ ret' = [ret EXCEPT ![t] = [kind |-> "none"]]
    /\ UNCHANGED <<manager, running, callbacks, lock, clock, pc, after, tick_i,
                   accounts_data, cb_log, rpc, snap_i, snapshots, wsVars>>
    /\ call' = Logged("add_account", t, id, Found(id))

\* remove_account without "with self._lock"
remove_account_unlocked(t, id) ==
    /\ Idle(t)
    /\ registry_remove(id)
    /\ ret' = [ret EXCEPT ![t] = [kind |-> "none"]]
    /\ UNCHANGED <<manager, running, callbacks, lock, clock, pc, after, tick_i,
                   accounts_data, cb_log, rpc, snap_i, snapshots, wsVars>>
    /\ call' = Logged("remove_account", t, id, Found(id))

remove_account(t, id) ==
    /\ Idle(t)
    /\ lock = "free"
    /\ registry_remove(id)
    /\ ret' = [ret EXCEPT ![t] = [kind |-> "none"]]
    /\ UNCHANGED <<manager, running, callbacks, lock, clock, pc, after, tick_i,
                   accounts_data, cb_log, rpc, snap_i, snapshots, wsVars>>
    /\ call' = Logged("remove_account", t, id, Found(id))

add_callback(t, kind) ==
    /\ Idle(t)
    /\ Len(callbacks) < MaxCallbacks
    /\ callbacks' = Append(callbacks, kind)
    /\ UNCHANGED <<manager, running, acct_order, monitors, stats, lock, clock, pc,
                   after, tick_i, accounts_data, cb_log, rpc, snap_i, snapshots, ret,
                   removed_ids, trade_log, wsVars>>
    /\ UNCHANGED call

(***************************************************************************)
(* Snapshots.  get_all_accounts_snapshot takes the lock and, for each key, *)
(* calls get_account_snapshot, which takes the lock itself.  The lock is a *)
(* threading.Lock: an acquire waits until the lock is free, whoever holds  *)
(* it.                                                                     *)
(***************************************************************************)
\* what get_account_snapshot returns once it holds the lock
get_account_snapshot_value(id) ==
    IF id \in DOMAIN monitors
    THEN [kind |-> "snapshot", val |-> SnapshotOf(id)]
    ELSE [kind |-> "none"]

get_account_snapshot(t, id) ==
    /\ Idle(t)
    /\ lock = "free"
    /\ ret' = [ret EXCEPT ![t] = get_account_snapshot_value(id)]
    /\ UNCHANGED <<manager, running, acct_order, monitors, stats, callbacks, lock,
                   clock, pc, after, tick_i, accounts_data, cb_log, rpc, snap_i,
                   snapshots, removed_ids, trade_log, wsVars>>
    /\ UNCHANGED call

\* a control caller calls get_all_accounts_snapshot
call_get_all_accounts_snapshot(t) ==
    /\ Idle(t)
    /\ pc' = [pc EXCEPT ![t] = "snap_call"]
    /\ after' = [after EXCEPT ![t] = "idle"]
    /\ UNCHANGED <<manager, running, acct_order, monitors, stats, callbacks, lock,
                   clock, tick_i, accounts_data, cb_log, rpc, snap_i, snapshots, ret,
                   removed_ids, trade_log, wsVars>>
    /\ UNCHANGED call

\* "with self._lock: snapshots = {}"
get_all_accounts_snapshot_enter(t) ==
    /\ pc[t] = "snap_call"
    /\ lock = "free"
    /\ lock' = t
    /\ pc' = [pc EXCEPT ![t] = "snap_loop"]
    /\ snap_i' = [snap_i EXCEPT ![t] = 1]
    /\ snapshots' = [snapshots EXCEPT ![t] = <<>>]
    /\ UNCHANGED <<manager, running, acct_order, monitors, stats, callbacks, clock,
                   after, tick_i, accounts_data, cb_log, rpc, ret, removed_ids, trade_log, wsVars>>
    /\ UNCHANGED call

\* "for login_id in self.monitored_accounts.keys()": for the next key the
\* thread calls self.get_account_snapshot(login_id), whose "with self._lock"
\* waits until the lock is free; after the last key "return snapshots"
\* leaves the with block and releases the lock
get_all_accounts_snapshot_step(t) ==
    /\ pc[t] = "snap_loop"
    /\ IF snap_i[t] <= Len(acct_order)
       THEN LET login_id == acct_order[snap_i[t]]
                snapshot == get_account_snapshot_value(login_id)
            IN /\ lock = "free"
               /\ snapshots' = [snapshots EXCEPT ![t] =
                      IF snapshot.kind = "none" THEN @
                      ELSE [k \in DOMAIN @ \cup {login_id} |->
                               IF k = login_id THEN snapshot.val ELSE @[k]]]
               /\ snap_i' = [snap_i EXCEPT ![t] = @ + 1]
               /\ UNCHANGED <<lock, ret, pc>>
       ELSE /\ lock' = "free"
            /\ ret' = [ret EXCEPT ![t] = [kind |-> "snapshots", val |-> snapshots[t]]]
            /\ pc' = [pc EXCEPT ![t] = after[t]]
            /\ UNCHANGED <<snap_i, snapshots>>
    /\ UNCHANGED <<manager, running, acct_order, monitors, stats, callbacks, clock,
                   after, tick_i, accounts_data, cb_log, rpc, removed_ids, trade_log, wsVars>>
    /\ UNCHANGED call

(***************************************************************************)
(* Aggregator: get_positions_by_symbol, get_total_exposure_by_symbol       *)
(***************************************************************************)
\* pos['login_id'] = login_id
Tag(pos, id) ==
    [k \in DOMAIN pos \cup {"login_id"} |-> IF k = "login_id" THEN id ELSE pos[k]]

\* the stored list after the matching dicts were tagged in place
TagMatching(positions, symbol, id) ==
    [i \in DOMAIN positions |->
        IF "symbol" \in DOMAIN positions[i] /\ positions[i]["symbol"] = symbol
        THEN Tag(positions[i], id) ELSE positions[i]]

RECURSIVE positions_by_symbol(_, _, _)
\* all_positions of get_positions_by_symbol: the registry is walked in
\* dict (insertion) order, the positions of one account in stored order
positions_by_symbol(order, mons, symbol) ==
    IF order = <<>> THEN <<>>
    ELSE LET login_id == Head(order)
             positions == FilterBySymbol(mons[login_id].positions.positions, symbol)
         IN [i \in DOMAIN positions |-> Tag(positions[i], login_id)]
            \o positions_by_symbol(Tail(order), mons, symbol)

\* the same walk, accounts taken last to first
positions_by_symbol_reversed(order, mons, symbol) ==
    LET rev == [i \in DOMAIN order |-> order[Len(order) + 1 - i]]
    IN positions_by_symbol(rev, mons, symbol)

\* the return value of get_positions_by_symbol
positions_by_symbol_result(order, mons, symbol) ==
    positions_by_symbol(order, mons, symbol)

ExposureZero == [volume |-> 0, accounts |-> 0, positions |-> 0]

RECURSIVE exposure_by_symbol(_, _, _)
\* the exposure dict of get_total_exposure_by_symbol, accumulated account by
\* account onto acc
exposure_by_symbol(order, mons, acc) ==
    IF order = <<>> THEN acc
    ELSE LET p == mons[Head(order)].positions
             volume_by_symbol == get_total_volume_by_symbol(p)
             next == [symbol \in DOMAIN acc \cup DOMAIN volume_by_symbol |->
                        IF symbol \in DOMAIN volume_by_symbol
                        THEN LET old == Get(acc, symbol, ExposureZero)
                             IN [volume |-> old.volume + volume_by_symbol[symbol],
                                 accounts |-> old.accounts + 1,
                                 positions |-> old.positions
                                     + Len(FilterBySymbol(p.positions, symbol))]
                        ELSE acc[symbol]]
         IN exposure_by_symbol(Tail(order), mons, next)

get_positions_by_symbol(t, symbol) ==
    /\ Idle(t)
    /\ lock = "free"
    /\ ret' = [ret EXCEPT ![t] = [kind |-> "positions", symbol |-> symbol,
                   val |-> positions_by_symbol_result(acct_order, monitors, symbol)]]
    /\ monitors' = [id \in DOMAIN monitors |->
                       [monitors[id] EXCEPT !.positions.positions =
                            TagMatching(@, symbol, id)]]
    /\ UNCHANGED <<manager, running, acct_order, stats, callbacks, lock, clock, pc,
                   after, tick_i, accounts_data, cb_log, rpc, snap_i, snapshots,
                   removed_ids, trade_log, wsVars>>
    /\ UNCHANGED call

get_total_exposure_by_symbol(t) ==
    /\ Idle(t)
    /\ lock = "free"
    /\ ret' = [ret EXCEPT ![t] = [kind |-> "exposure",
                   val |-> exposure_by_symbol(acct_order, monitors, <<>>)]]
    /\ UNCHANGED <<manager, running, acct_order, monitors, stats, callbacks, lock,
                   clock, pc, after, tick_i, accounts_data, cb_log, rpc, snap_i,
                   snapshots, removed_ids, trade_log, wsVars>>
    /\ UNCHANGED call

\* get_stats reads the counters without the lock
call_get_stats(t) ==
    /\ Idle(t)
    /\ ret' = [ret EXCEPT ![t] = [kind |-> "stats", val |-> get_stats]]
    /\ UNCHANGED <<manager, running, acct_order, monitors, stats, callbacks, lock,
                   clock, pc, after, tick_i, accounts_data, cb_log, rpc, snap_i,
                   snapshots, removed_ids, trade_log, wsVars>>
    /\ UNCHANGED call

\* export_data: get_stats(), then get_all_accounts_snapshot() ...
export_data(t) ==
    /\ Idle(t)
    /\ pc' = [pc EXCEPT ![t] = "snap_call"]
    /\ after' = [after EXCEPT ![t] = "export_exposure"]
    /\ UNCHANGED <<manager, running, acct_order, monitors, stats, callbacks, lock,
                   clock, tick_i, accounts_data, cb_log, rpc, snap_i, snapshots, ret,
                   removed_ids, trade_log, wsVars>>
    /\ UNCHANGED call

\* ... then get_total_exposure_by_symbol(), json.dump to the file, True
export_data_finish(t) ==
    /\ pc[t] = "export_exposure"
    /\ lock = "free"
    /\ ret' = [ret EXCEPT ![t] = [kind |-> "export", ok |-> TRUE,
                   accounts |-> ret[t].val,
                   exposure |-> exposure_by_symbol(acct_order, monitors, <<>>)]]
    /\ pc' = [pc EXCEPT ![t] = "idle"]
    /\ UNCHANGED <<manager, running, acct_order, monitors, stats, callbacks, lock,
                   clock, after, tick_i, accounts_data, cb_log, rpc, snap_i, snapshots,
                   removed_ids, trade_log, wsVars>>
    /\ UNCHANGED call

(***************************************************************************)
(* Engine life cycle: initialize, start, stop                              *)
(***************************************************************************)
\* self.manager after initialize(): the handshake h gives a live handle
\* ("ok"), a manager object without handle ("dead"), or the constructor
\* raises before the assignment ("raise")
initialize_manager(h) ==
    IF h = "ok" THEN "ok" ELSE IF h = "dead" THEN "dead" ELSE manager

initialize_result(h) == h = "ok"

Handshakes == {"ok", "dead", "raise"}

\* a thread object start() can launch, among the pool M
FreeMon(M) == CHOOSE m \in M : pc[m] = "none"

initialize(t, h) ==
    /\ Idle(t)
    /\ manager' = initialize_manager(h)
    /\ ret' = [ret EXCEPT ![t] = [kind |-> "bool", val |-> initialize_result(h)]]
    /\ UNCHANGED <<running, acct_order, monitors, stats, callbacks, lock, clock, pc,
                   after, tick_i, accounts_data, cb_log, rpc, snap_i, snapshots,
                   removed_ids, trade_log, wsVars>>
    /\ UNCHANGED call

\* a start() that launches the loop whatever initialize() returned
start_unchecked(t, h, M) ==
    /\ Idle(t)
    /\ manager' = IF manager = "none" THEN initialize_manager(h) ELSE manager
    /\ IF running
       THEN /\ ret' = [ret EXCEPT ![t] = [kind |-> "bool", val |-> FALSE]]
            /\ UNCHANGED <<running, pc>>
       ELSE /\ \E m \in M : pc[m] = "none"
            /\ running' = TRUE
            /\ pc' = [pc EXCEPT ![FreeMon(M)] = "check"]
            /\ ret' = [ret EXCEPT ![t] = [kind |-> "bool", val |-> TRUE]]
    /\ UNCHANGED <<acct_order, monitors, stats, callbacks, lock, clock, after,
                   tick_i, accounts_data, cb_log, rpc, snap_i, snapshots, removed_ids, trade_log,
                   wsVars>>
    /\ call' = Logged("start", t, h, running)

\* a start() without the "if self.running" test
start_again(t, h, M) ==
    /\ Idle(t)
    /\ manager' = IF manager = "none" THEN initialize_manager(h) ELSE manager
    /\ IF manager = "none" /\ ~initialize_result(h)
       THEN /\ ret' = [ret EXCEPT ![t] = [kind |-> "bool", val |-> FALSE]]
            /\ UNCHANGED <<running, pc>>
       ELSE /\ \E m \in M : pc[m] = "none"
            /\ running' = TRUE
            /\ pc' = [pc EXCEPT ![FreeMon(M)] = "check"]
            /\ ret' = [ret EXCEPT ![t] = [kind |-> "bool", val |-> TRUE]]
    /\ UNCHANGED <<acct_order, monitors, stats, callbacks, lock, clock, after,
                   tick_i, accounts_data, cb_log, rpc, snap_i, snapshots, removed_ids, trade_log,
                   wsVars>>
    /\ call' = Logged("start", t, h, running)

start(t, h, M) ==
    /\ Idle(t)
    /\ manager' = IF manager = "none" THEN initialize_manager(h) ELSE manager
    /\ IF (manager = "none" /\ ~initialize_result(h)) \/ running
       THEN /\ ret' = [ret EXCEPT ![t] = [kind |-> "bool", val |-> FALSE]]
            /\ UNCHANGED <<running, pc>>
       ELSE /\ \E m \in M : pc[m] = "none"
            /\ running' = TRUE
            /\ pc' = [pc EXCEPT ![FreeMon(M)] = "check"]
            /\ ret' = [ret EXCEPT ![t] = [kind |-> "bool", val |-> TRUE]]
    /\ UNCHANGED <<acct_order, monitors, stats, callbacks, lock, clock, after,
                   tick_i, accounts_data, cb_log, rpc, snap_i, snapshots, removed_ids, trade_log,
                   wsVars>>
    /\ call' = Logged("start", t, h, running)

\* stop(): the join gives up after 10 s, so stop() may return while the loop
\* thread is still alive
stop(t) ==
    /\ Idle(t)
    /\ running' = FALSE
    /\ ret' = [ret EXCEPT ![t] = [kind |-> "none"]]
    /\ UNCHANGED <<manager, acct_order, monitors, stats, callbacks, lock, clock, pc,
                   after, tick_i, accounts_data, cb_log, rpc, snap_i, snapshots,
                   removed_ids, trade_log, wsVars>>
    /\ call' = Logged("stop", t, 0, running)

(***************************************************************************)
(* Fan-out task.  on_data_update builds the message and calls              *)
(* asyncio.create_task, which needs the running event loop of the calling  *)
(* thread and raises RuntimeError in any thread that runs none.            *)
(***************************************************************************)
NoTask == [state |-> "none"]

NewTask(message) ==
    [state |-> "ready", message |-> message, size |-> 0, members |-> {},
     visited |-> {}, sent |-> {}, disconnected |-> {}]

update_message(data, now) == [type |-> "update", data |-> data, timestamp |-> now]

\* on_data_update called in thread t raises
on_data_update_raises(t) == t # LoopThread

\* outcome of calling the callback of this kind in thread t
callback_raises(kind, t) ==
    IF kind = "ws" THEN on_data_update_raises(t) ELSE kind = "raise"

(***************************************************************************)
(* Poll loop: _monitor_loop and _update_all_accounts                       *)
(***************************************************************************)
\* "while self.running"
monitor_loop_check(m) ==
    /\ pc[m] = "check"
    /\ pc' = [pc EXCEPT ![m] = IF running THEN "tick" ELSE "none"]
    /\ UNCHANGED <<manager, running, acct_order, monitors, stats, callbacks, lock,
                   clock, after, tick_i, accounts_data, cb_log, rpc, snap_i, snapshots,
                   ret, removed_ids, trade_log, wsVars>>
    /\ UNCHANGED call

\* a tick that enters the registry loop without taking the lock
update_all_accounts_unlocked(m, n) ==
    /\ pc[m] = "tick"
    /\ stats.total_updates < n
    /\ IF manager = "none"
       THEN /\ pc' = [pc EXCEPT ![m] = "sleep"]
            /\ UNCHANGED <<tick_i, accounts_data>>
       ELSE /\ pc' = [pc EXCEPT ![m] = "loop"]
            /\ tick_i' = [tick_i EXCEPT ![m] = 1]
            /\ accounts_data' = [accounts_data EXCEPT ![m] = <<>>]
    /\ UNCHANGED <<manager, running, acct_order, monitors, stats, callbacks, clock, lock,
                   after, cb_log, rpc, snap_i, snapshots, ret, removed_ids, trade_log, wsVars>>
    /\ UNCHANGED call

\* _update_all_accounts up to "with self._lock: accounts_data = []", in a
\* run of at most n ticks
update_all_accounts_upto(m, n) ==
    /\ pc[m] = "tick"
    /\ stats.total_updates < n
    /\ IF manager = "none"
       THEN /\ pc' = [pc EXCEPT ![m] = "sleep"]
            /\ UNCHANGED <<lock, tick_i, accounts_data>>
       ELSE /\ lock = "free"
            /\ lock' = m
            /\ pc' = [pc EXCEPT ![m] = "loop"]
            /\ tick_i' = [tick_i EXCEPT ![m] = 1]
            /\ accounts_data' = [accounts_data EXCEPT ![m] = <<>>]
    /\ UNCHANGED <<manager, running, acct_order, monitors, stats, callbacks, clock,
                   after, cb_log, rpc, snap_i, snapshots, ret, removed_ids, trade_log, wsVars>>
    /\ UNCHANGED call

update_all_accounts_enter(m) == update_all_accounts_upto(m, MaxTicks)

\* the same test with the modulus dropped: fetched in every tick
trades_every_tick == TRUE

\* the trades branch of the tick: fetched when total_updates % 5 = 0
trades_due == stats.total_updates % TradesCycle = 0

\* the three sub-updates of one account, where the details call is the
\* only one made when it raises
refresh_aborting(mon, details, positions, trades, due, now) ==
    [account |-> AccountMonitor_update(mon.account, details, now),
     positions |-> IF details.kind = "raise" THEN mon.positions
                   ELSE PositionMonitor_update(mon.positions, positions, now),
     trades |-> IF due /\ details.kind # "raise"
                THEN TradeMonitor_update(mon.trades, trades, now)
                ELSE mon.trades]

\* the three sub-updates of one account: each update() catches what its own
\* call raises, and the trades update is made when due
refresh(mon, details, positions, trades, due, now) ==
    [account |-> AccountMonitor_update(mon.account, details, now),
     positions |-> PositionMonitor_update(mon.positions, positions, now),
     trades |-> IF due THEN TradeMonitor_update(mon.trades, trades, now)
                ELSE mon.trades]

\* one iteration of "for login_id, monitors in self.monitored_accounts.items()"
\* with the three broker results of this account
update_account(m, details, positions, trades) ==
    /\ pc[m] = "loop"
    /\ tick_i[m] <= Len(acct_order)
    /\ LET login_id == acct_order[tick_i[m]]
           mon == monitors[login_id]
           new == refresh(mon, details, positions, trades, trades_due, clock)
           account_data == AccountMonitor_update_result(mon.account, details, clock)
           trades_data == IF trades_due
                          THEN TradeMonitor_update_result(mon.trades, trades, clock)
                          ELSE mon.trades.trades
           entry == [account |-> account_data,
                     positions |-> PositionMonitor_to_dict(new.positions),
                     trades_summary |-> [trade_count |-> Len(trades_data),
                                         last_update |-> new.trades.last_update]]
       IN /\ monitors' = [monitors EXCEPT ![login_id] = new]
          /\ accounts_data' = [accounts_data EXCEPT ![m] =
                 IF account_data # NoneVal THEN Append(@, entry) ELSE @]
    /\ trade_log' = IF trades_due
                    THEN [trade_log EXCEPT ![acct_order[tick_i[m]]].fetches = @ + 1]
                    ELSE trade_log
    /\ rpc' = [login_id |-> acct_order[tick_i[m]],
               details |-> details,
               positions |-> positions,
               trades |-> IF trades_due THEN trades ELSE SkippedOut]
    /\ tick_i' = [tick_i EXCEPT ![m] = @ + 1]
    /\ UNCHANGED <<manager, running, acct_order, stats, callbacks, lock, clock, pc,
                   after, cb_log, snap_i, snapshots, ret, removed_ids, wsVars>>
    /\ UNCHANGED call

\* a notification that ends at the first callback that raises
notify_until_raise(cbs, data, m) ==
    LET raising == {i \in DOMAIN cbs : callback_raises(cbs[i], m)}
        last == IF raising = {} THEN Len(cbs)
                ELSE CHOOSE i \in raising : \A j \in raising : i <= j
    IN [i \in 1..last |->
           [kind |-> cbs[i], data |-> data, raised |-> callback_raises(cbs[i], m)]]

\* "for callback in self._callbacks: try: callback(accounts_data) except ..."
\* run in thread m: the calls made, in order, each with its argument and
\* whether it raised
notify(cbs, data, m) ==
    [i \in DOMAIN cbs |->
        [kind |-> cbs[i], data |-> data, raised |-> callback_raises(cbs[i], m)]]

\* counters that count only the ticks that had an account to refresh
tick_completed_if_any(st, now) ==
    IF st.monitored_count = 0 THEN [st EXCEPT !.last_update = now]
    ELSE [st EXCEPT !.total_updates = @ + 1, !.last_update = now]

\* self.stats['total_updates'] += 1; self.stats['last_update'] = datetime.now()
tick_completed(st, now) ==
    [st EXCEPT !.total_updates = @ + 1, !.last_update = now]

\* after the loop: the counters, then the callbacks, each in a try/except
\* that logs; leaving the with block releases the lock
update_all_accounts_finish(m) ==
    /\ pc[m] = "loop"
    /\ tick_i[m] > Len(acct_order)
    /\ stats' = tick_completed(stats, clock)
    /\ cb_log' = notify(callbacks, accounts_data[m], m)
    /\ bcast' = IF \E i \in DOMAIN callbacks :
                      callbacks[i] = "ws" /\ ~callback_raises("ws", m)
                THEN NewTask(update_message(accounts_data[m], clock))
                ELSE bcast
    /\ lock' = "free"
    /\ rpc' = NoRpc
    /\ pc' = [pc EXCEPT ![m] = "sleep"]
    /\ UNCHANGED <<manager, running, acct_order, monitors, callbacks, clock, after,
                   tick_i, accounts_data, snap_i, snapshots, ret, removed_ids, trade_log,
                   ws_state, clients, conn, hpc, cur, frames>>
    /\ UNCHANGED call

\* time.sleep(self.update_interval)
monitor_loop_sleep(m) ==
    /\ pc[m] = "sleep"
    /\ pc' = [pc EXCEPT ![m] = "check"]
    /\ clock' = clock + 1
    /\ UNCHANGED <<manager, running, acct_order, monitors, stats, callbacks, lock,
                   after, tick_i, accounts_data, cb_log, rpc, snap_i, snapshots, ret,
                   removed_ids, trade_log, wsVars>>
    /\ UNCHANGED call

(***************************************************************************)
(* Subscriber server (WebSocketServer).  All its coroutines run on the     *)
(* event-loop thread; a step below runs one task from one suspension point *)
(* (an await on the socket) to the next.  An engine call made by a task    *)
(* runs on the event-loop thread and takes the engine lock there.          *)
(***************************************************************************)
LoopIdle == pc[LoopThread] = "idle"

RECURSIVE FramesOf(_)
\* number of frames delivered to the subscribers of S
FramesOf(S) ==
    IF S = {} THEN 0
    ELSE LET s == CHOOSE x \in S : TRUE IN Len(frames[s]) + FramesOf(S \ {s})

\* json.dumps turns the int keys of a fleet snapshot into strings
json_keys(d) ==
    [s \in {ToString(k) : k \in DOMAIN d} |-> d[CHOOSE k \in DOMAIN d : ToString(k) = s]]

\* await websocket.send(frame) by the task of subscriber s: the frame is
\* delivered, or ConnectionClosed ends handle_client through its finally
Reply(s, frame) ==
    IF conn[s] = "open"
    THEN /\ frames' = [frames EXCEPT ![s] = Append(@, frame)]
         /\ UNCHANGED <<clients, hpc>>
    ELSE /\ clients' = clients \ {s}
         /\ hpc' = [hpc EXCEPT ![s] = "done"]
         /\ UNCHANGED frames

\* WebSocketServer.start: initialize, add_callback(on_data_update), rms.start()
ws_start(h, M) ==
    /\ ws_state = "new"
    /\ manager' = initialize_manager(h)
    /\ IF ~initialize_result(h)
       THEN /\ ws_state' = "failed"
            /\ UNCHANGED <<callbacks, running, pc>>
       ELSE /\ ws_state' = "serving"
            /\ callbacks' = Append(callbacks, "ws")
            /\ IF running
               THEN UNCHANGED <<running, pc>>
               ELSE /\ \E m \in M : pc[m] = "none"
                    /\ running' = TRUE
                    /\ pc' = [pc EXCEPT ![FreeMon(M)] = "check"]
    /\ UNCHANGED <<acct_order, monitors, stats, lock, clock, after, tick_i,
                   accounts_data, cb_log, rpc, snap_i, snapshots, ret, removed_ids, trade_log,
                   clients, conn, hpc, cur, frames, bcast>>
    /\ UNCHANGED call

\* a subscriber connects: websockets starts a handle_client task for it
connect(s) ==
    /\ ws_state = "serving"
    /\ conn[s] = "none"
    /\ conn' = [conn EXCEPT ![s] = "open"]
    /\ hpc' = [hpc EXCEPT ![s] = "accepted"]
    /\ UNCHANGED <<engineVars, ws_state, clients, cur, frames, bcast>>
    /\ UNCHANGED call

\* the subscriber's side closes the connection
peer_close(s) ==
    /\ conn[s] = "open"
    /\ conn' = [conn EXCEPT ![s] = "closed"]
    /\ UNCHANGED <<engineVars, ws_state, clients, hpc, cur, frames, bcast>>
    /\ UNCHANGED call

\* register_client up to the call of get_all_accounts_snapshot
register_client(s) ==
    /\ LoopIdle
    /\ hpc[s] = "accepted"
    /\ clients' = clients \cup {s}
    /\ hpc' = [hpc EXCEPT ![s] = "registering"]
    /\ cur' = s
    /\ pc' = [pc EXCEPT ![LoopThread] = "snap_call"]
    /\ after' = [after EXCEPT ![LoopThread] = "register_send"]
    /\ UNCHANGED <<manager, running, acct_order, monitors, stats, callbacks, lock,
                   clock, tick_i, accounts_data, cb_log, rpc, snap_i, snapshots, ret,
                   removed_ids, trade_log, ws_state, conn, frames, bcast>>
    /\ UNCHANGED call

initial_frame(data) ==
    [type |-> "initial", data |-> json_keys(data), stats |-> get_stats,
     timestamp |-> clock]

\* register_client from the return of get_all_accounts_snapshot: the initial
\* frame is sent; a failing send is logged
register_client_send ==
    /\ pc[LoopThread] = "register_send"
    /\ IF conn[cur] = "open"
       THEN frames' = [frames EXCEPT ![cur] = Append(@, initial_frame(ret[LoopThread].val))]
       ELSE UNCHANGED frames
    /\ hpc' = [hpc EXCEPT ![cur] = "serving"]
    /\ pc' = [pc EXCEPT ![LoopThread] = "idle"]
    /\ cur' = "none"
    /\ UNCHANGED <<manager, running, acct_order, monitors, stats, callbacks, lock,
                   clock, after, tick_i, accounts_data, cb_log, rpc, snap_i, snapshots,
                   ret, removed_ids, trade_log, ws_state, clients, conn, bcast>>
    /\ UNCHANGED call

\* "async for message in websocket" ends on a closed connection: finally
\* unregister_client
handle_client_exit(s) ==
    /\ LoopIdle
    /\ hpc[s] = "serving"
    /\ conn[s] = "closed"
    /\ clients' = clients \ {s}
    /\ hpc' = [hpc EXCEPT ![s] = "done"]
    /\ UNCHANGED <<engineVars, ws_state, conn, cur, frames, bcast>>
    /\ UNCHANGED call

(***************************************************************************)
(* Control protocol: handle_message.  A JSON value is [t, v]: an int, a    *)
(* string, or absent (NoField).                                            *)
(***************************************************************************)
NoField == [t |-> "none", v |-> 0]
JInt(n) == [t |-> "int", v |-> n]
JStr(x) == [t |-> "str", v |-> x]

Truthy(j) == (j.t = "int" /\ j.v # 0) \/ (j.t = "str" /\ j.v # "")

\* int(login_id) raises ValueError on a string that is no number
IntRaises(j) == j.t = "str" /\ j.v \notin {"1001", "1002"}
IntOf(j) == IF j.t = "int" THEN j.v ELSE IF j.v = "1001" THEN 1001 ELSE 1002

error_frame(message) == [type |-> "error", message |-> message]
success_frame(message) == [type |-> "success", message |-> message]

\* an error reply after which handle_client leaves its loop
handle_invalid_json_closing(s) ==
    /\ frames' = [frames EXCEPT ![s] =
                      IF conn[s] = "open" THEN Append(@, error_frame("Invalid JSON")) ELSE @]
    /\ clients' = clients \ {s}
    /\ hpc' = [hpc EXCEPT ![s] = "done"]
    /\ UNCHANGED <<engineVars, cur>>

\* the message could not be parsed: json.JSONDecodeError
handle_invalid_json(s) ==
    /\ Reply(s, error_frame("Invalid JSON"))
    /\ UNCHANGED <<engineVars, cur>>

handle_add_account(s, data) ==
    LET login_id == Get(data, "login_id", NoField) IN
    /\ data.type = "add_account"
    /\ IF ~Truthy(login_id)
       THEN UNCHANGED <<acct_order, monitors, stats, removed_ids, trade_log, frames, clients, hpc>>
       ELSE IF IntRaises(login_id)
       THEN /\ Reply(s, error_frame("ValueError"))
            /\ UNCHANGED <<acct_order, monitors, stats, removed_ids, trade_log>>
       ELSE /\ lock = "free"
            /\ registry_add(IntOf(login_id))
            /\ Reply(s, success_frame(<<"added", login_id.v>>))
    /\ UNCHANGED <<manager, running, callbacks, lock, clock, pc, after, tick_i,
                   accounts_data, cb_log, rpc, snap_i, snapshots, ret, cur>>

handle_remove_account(s, data) ==
    LET login_id == Get(data, "login_id", NoField) IN
    /\ data.type = "remove_account"
    /\ IF ~Truthy(login_id)
       THEN UNCHANGED <<acct_order, monitors, stats, removed_ids, trade_log, frames, clients, hpc>>
       ELSE IF IntRaises(login_id)
       THEN /\ Reply(s, error_frame("ValueError"))
            /\ UNCHANGED <<acct_order, monitors, stats, removed_ids, trade_log>>
       ELSE /\ lock = "free"
            /\ registry_remove(IntOf(login_id))
            /\ Reply(s, success_frame(<<"removed", login_id.v>>))
    /\ UNCHANGED <<manager, running, callbacks, lock, clock, pc, after, tick_i,
                   accounts_data, cb_log, rpc, snap_i, snapshots, ret, cur>>

\* get_snapshot: with a login_id the reply is sent at once; without, the
\* task first calls get_all_accounts_snapshot
handle_get_snapshot(s, data) ==
    LET login_id == Get(data, "login_id", NoField) IN
    /\ data.type = "get_snapshot"
    /\ IF ~Truthy(login_id)
       THEN /\ cur' = s
            /\ pc' = [pc EXCEPT ![LoopThread] = "snap_call"]
            /\ after' = [after EXCEPT ![LoopThread] = "snapshot_send"]
            /\ UNCHANGED <<frames, clients, hpc>>
       ELSE /\ IF IntRaises(login_id)
               THEN Reply(s, error_frame("ValueError"))
               ELSE /\ lock = "free"
                    /\ Reply(s, [type |-> "snapshot",
                                 data |-> IF IntOf(login_id) \in DOMAIN monitors
                                          THEN SnapshotOf(IntOf(login_id))
                                          ELSE NoneVal,
                                 timestamp |-> clock])
            /\ UNCHANGED <<cur, pc, after>>
    /\ UNCHANGED <<manager, running, acct_order, monitors, stats, callbacks, lock,
                   clock, tick_i, accounts_data, cb_log, rpc, snap_i, snapshots, ret,
                   removed_ids, trade_log>>

\* get_snapshot without login_id, from the return of get_all_accounts_snapshot
handle_get_snapshot_send ==
    /\ pc[LoopThread] = "snapshot_send"
    /\ Reply(cur, [type |-> "snapshot", data |-> json_keys(ret[LoopThread].val),
                   timestamp |-> clock])
    /\ pc' = [pc EXCEPT ![LoopThread] = "idle"]
    /\ cur' = "none"
    /\ UNCHANGED <<manager, running, acct_order, monitors, stats, callbacks, lock,
                   clock, after, tick_i, accounts_data, cb_log, rpc, snap_i, snapshots,
                   ret, removed_ids, trade_log, ws_state, conn, bcast>>
    /\ UNCHANGED call

handle_get_exposure(s, data) ==
    LET symbol == Get(data, "symbol", NoField) IN
    /\ data.type = "get_exposure"
    /\ lock = "free"
    /\ IF Truthy(symbol)
       THEN /\ Reply(s, [type |-> "exposure", symbol |-> symbol.v,
                         positions |-> positions_by_symbol_result(acct_order, monitors, symbol.v),
                         timestamp |-> clock])
            /\ monitors' = [id \in DOMAIN monitors |->
                               [monitors[id] EXCEPT !.positions.positions =
                                    TagMatching(@, symbol.v, id)]]
       ELSE /\ Reply(s, [type |-> "exposure",
                         data |-> exposure_by_symbol(acct_order, monitors, <<>>),
                         timestamp |-> clock])
            /\ UNCHANGED monitors
    /\ UNCHANGED <<manager, running, acct_order, stats, callbacks, lock, clock, pc,
                   after, tick_i, accounts_data, cb_log, rpc, snap_i, snapshots, ret,
                   removed_ids, trade_log, cur>>

handle_get_stats(s, data) ==
    /\ data.type = "get_stats"
    /\ Reply(s, [type |-> "stats", data |-> get_stats, timestamp |-> clock])
    /\ UNCHANGED <<engineVars, cur>>

handle_unknown(s, data) ==
    /\ data.type \notin {"add_account", "remove_account", "get_snapshot",
                         "get_exposure", "get_stats"}
    /\ Reply(s, error_frame(<<"Unknown message type", data.type>>))
    /\ UNCHANGED <<engineVars, cur>>

\* one message read by "async for message in websocket" and handled, in a
\* run that delivers at most n frames; a message received before the peer
\* closed is still delivered to the task
handle_client_message_upto(s, msg, n) ==
    /\ LoopIdle
    /\ hpc[s] = "serving"
    /\ conn[s] # "none"
    /\ FramesOf(Subs) < n
    /\ IF msg.kind = "text" THEN handle_invalid_json(s)
       ELSE \/ handle_add_account(s, msg.data)
            \/ handle_remove_account(s, msg.data)
            \/ handle_get_snapshot(s, msg.data)
            \/ handle_get_exposure(s, msg.data)
            \/ handle_get_stats(s, msg.data)
            \/ handle_unknown(s, msg.data)
    /\ UNCHANGED <<ws_state, conn, bcast>>
    /\ call' = Logged("message", s, msg, conn[s] = "open")

handle_client_message(s, msg) == handle_client_message_upto(s, msg, MaxFrames)

Json(data) == [kind |-> "json", data |-> data]
Text == [kind |-> "text"]

(***************************************************************************)
(* broadcast: "for client in self.clients: await client.send(...)".  The   *)
(* set iterator raises RuntimeError when the set changed size since the    *)
(* iteration began; each send is a suspension point.                       *)
(***************************************************************************)
BroadcastIdle == bcast.state \in {"none", "done", "crashed"}

\* a coroutine on the event loop schedules broadcast(message)
broadcast_call(data) ==
    /\ LoopIdle
    /\ ws_state = "serving"
    /\ BroadcastIdle
    /\ FramesOf(Subs) < MaxFrames
    /\ bcast' = NewTask(update_message(data, clock))
    /\ UNCHANGED <<engineVars, ws_state, clients, conn, hpc, cur, frames>>
    /\ UNCHANGED call

\* one iteration: the next client of the set is sent the message.  The task
\* records the set it began with (members), the clients it reached (visited),
\* those whose send succeeded (sent) and those whose send failed
broadcast_send(c) ==
    LET begin == bcast.state = "ready"
        size == IF begin THEN Cardinality(clients) ELSE bcast.size
        members == IF begin THEN clients ELSE bcast.members
    IN /\ LoopIdle
       /\ bcast.state \in {"ready", "iter"}
       /\ Cardinality(clients) = size
       /\ c \in clients \ bcast.visited
       /\ IF conn[c] = "open"
          THEN /\ frames' = [frames EXCEPT ![c] = Append(@, bcast.message)]
               /\ bcast' = [bcast EXCEPT !.state = "iter", !.size = size,
                                         !.members = members,
                                         !.visited = @ \cup {c},
                                         !.sent = @ \cup {c}]
          ELSE /\ bcast' = [bcast EXCEPT !.state = "iter", !.size = size,
                                         !.members = members,
                                         !.visited = @ \cup {c},
                                         !.disconnected = @ \cup {c}]
               /\ UNCHANGED frames
       /\ UNCHANGED <<engineVars, ws_state, clients, conn, hpc, cur>>
       /\ UNCHANGED call

\* the iteration is over (or there was no client): the clients whose send
\* failed are unregistered
broadcast_end ==
    /\ LoopIdle
    /\ \/ bcast.state = "ready" /\ clients = {}
       \/ /\ bcast.state = "iter"
          /\ Cardinality(clients) = bcast.size
          /\ clients \ bcast.visited = {}
    /\ clients' = clients \ bcast.disconnected
    /\ bcast' = [bcast EXCEPT !.state = "done"]
    /\ UNCHANGED <<engineVars, ws_state, conn, hpc, cur, frames>>
    /\ UNCHANGED call

\* the set changed size during the iteration: RuntimeError ends the task
broadcast_crash ==
    /\ LoopIdle
    /\ bcast.state = "iter"
    /\ Cardinality(clients) # bcast.size
    /\ bcast' = [bcast EXCEPT !.state = "crashed"]
    /\ UNCHANGED <<engineVars, ws_state, clients, conn, hpc, cur, frames>>
    /\ UNCHANGED call

(***************************************************************************)
(* Specifications                                                          *)
(***************************************************************************)
InitEngineVars ==
    /\ manager = "none"
    /\ running = FALSE
    /\ acct_order = <<>>
    /\ monitors = <<>>
    /\ stats = [total_updates |-> 0, last_update |-> 0, errors |-> 0,
                monitored_count |-> 0]
    /\ callbacks = <<>>
    /\ lock = "free"
    /\ clock = 1
    /\ pc = [t \in Threads |-> IF t \in MonThreads THEN "none" ELSE "idle"]
    /\ after = [t \in Threads |-> "idle"]
    /\ tick_i = [m \in MonThreads |-> 1]
    /\ accounts_data = [m \in MonThreads |-> <<>>]
    /\ cb_log = <<>>
    /\ snap_i = [t \in Threads |-> 1]
    /\ snapshots = [t \in Threads |-> <<>>]
    /\ ret = [t \in Threads |-> [kind |-> "none"]]
    /\ removed_ids = {}
    /\ trade_log = <<>>
    /\ rpc = NoRpc

InitWsVars ==
    /\ ws_state = "new"
    /\ clients = {}
    /\ conn = [s \in Subs |-> "none"]
    /\ hpc = [s \in Subs |-> "none"]
    /\ cur = "none"
    /\ frames = [s \in Subs |-> <<>>]
    /\ bcast = NoTask

\* no operation is recorded / none has been made yet
NoLog == [op |-> "off", seq |-> 0]
NoCall == [op |-> "none", seq |-> 0]

Init == InitEngineVars /\ InitWsVars /\ call = NoLog

\* the same, the control operations being recorded in call
InitLogged == InitEngineVars /\ InitWsVars /\ call = NoCall

\* the steps of the poll-loop threads M, the broker answering from D, P, T
PollLoop(M, D, P, T) ==
    \E m \in M :
        \/ monitor_loop_check(m)
        \/ update_all_accounts_enter(m)
        \/ \E d \in D, p \in P, tr \in T : update_account(m, d, p, tr)
        \/ update_all_accounts_finish(m)
        \/ monitor_loop_sleep(m)

\* get_all_accounts_snapshot running in thread t
FleetSnapshot(t) ==
    \/ get_all_accounts_snapshot_enter(t)
    \/ get_all_accounts_snapshot_step(t)

(* The engine driven by one control caller (the CLI, example.py). *)
EngineThreads == {"m1"}
EngineCallers == {"c1"}

Control ==
    \E t \in EngineCallers :
        \/ \E id \in Ids : add_account(t, id)
        \/ \E id \in Ids : remove_account(t, id)
        \/ \E id \in Ids : get_account_snapshot(t, id)
        \/ call_get_all_accounts_snapshot(t)
        \/ FleetSnapshot(t)
        \/ \E h \in Handshakes : start(t, h, EngineThreads)
        \/ stop(t)

EnginePoll == PollLoop(EngineThreads, DetailsFew, PositionsOne, TradesOne)

NextEngine == EnginePoll \/ Control

SpecEngine == Init /\ [][NextEngine]_vars

\* a started thread keeps running: the poll loop is a daemon thread of its own
FairSpecEngine == SpecEngine /\ WF_vars(EnginePoll)

(* The subscriber server process: the event loop with its subscriber    *)
(* tasks and the poll loop thread that WebSocketServer.start launches.  *)
WsThreads == {"m1"}
WsMessages ==
    {Json([type |-> "add_account", login_id |-> JInt(1001)])}
WsLists == {<<>>}

EventLoop ==
    \/ \E s \in Subs : register_client(s)
    \/ FleetSnapshot(LoopThread)
    \/ register_client_send
    \/ \E s \in Subs, msg \in WsMessages : handle_client_message(s, msg)
    \/ \E s \in Subs : handle_client_exit(s)
    \/ \E c \in Subs : broadcast_send(c)
    \/ broadcast_end
    \/ broadcast_crash

Network ==
    \/ \E h \in Handshakes : ws_start(h, WsThreads)
    \/ \E s \in Subs : connect(s)
    \/ \E s \in Subs : peer_close(s)
    \/ \E data \in WsLists : broadcast_call(data)

WsPoll == PollLoop(WsThreads, DetailsOne, PositionsOne, TradesOne)

NextWS == EventLoop \/ Network \/ WsPoll

SpecWS == Init /\ [][NextWS]_vars

\* the event loop runs every task that is ready; the poll thread keeps running
FairSpecWS == SpecWS /\ WF_vars(EventLoop) /\ WF_vars(WsPoll)

(* The aggregator queried by a control caller while the poll loop       *)
(* refreshes the positions of the registered accounts.                  *)
AggThreads == {"m1"}
AggCallers == {"c1"}

Queries ==
    \E t \in AggCallers :
        \/ \E id \in Ids : add_account(t, id)
        \/ \E h \in Handshakes : start(t, h, AggThreads)
        \/ \E symbol \in Symbols : get_positions_by_symbol(t, symbol)
        \/ get_total_exposure_by_symbol(t)

AggPoll == PollLoop(AggThreads, DetailsOne, PositionsAgg, TradesOne)

NextAgg == AggPoll \/ Queries

SpecAgg == Init /\ [][NextAgg]_vars

(* A long run of the poll loop over accounts added by one caller: the   *)
(* closed-trades cadence.                                               *)
CadenceThreads == {"m1"}
CadenceCallers == {"c1"}

CadenceControl ==
    \E t \in CadenceCallers :
        \/ \E id \in Ids : add_account(t, id)
        \/ \E h \in Handshakes : start(t, h, CadenceThreads)

CadencePoll ==
    \E m \in CadenceThreads :
        \/ monitor_loop_check(m)
        \/ update_all_accounts_upto(m, CadenceTicks)
        \/ \E d \in DetailsOne, p \in PositionsOne, tr \in TradesFew :
               update_account(m, d, p, tr)
        \/ update_all_accounts_finish(m)
        \/ monitor_loop_sleep(m)

NextCadence == CadencePoll \/ CadenceControl

SpecCadence == Init /\ [][NextCadence]_vars

(* The refresh of the registered accounts against a broker that may    *)
(* answer, answer with nothing, or fail, on each of its three calls.    *)
RefreshThreads == {"m1"}
RefreshCallers == {"c1"}

RefreshControl ==
    \E t \in RefreshCallers :
        \/ \E id \in Ids : add_account(t, id)
        \/ \E h \in Handshakes : start(t, h, RefreshThreads)

RefreshPoll == PollLoop(RefreshThreads, DetailsAll, PositionsFew, TradesOne)

NextRefresh == RefreshPoll \/ RefreshControl

SpecRefresh == Init /\ [][NextRefresh]_vars

(* One account refreshed for as many ticks as it takes to fetch its     *)
(* closed trades a second time, positions and trades calls failing at   *)
(* will.                                                                *)
SliceThreads == {"m1"}
SliceCallers == {"c1"}
SliceIds == {1001}

SliceControl ==
    \E t \in SliceCallers :
        \/ \E id \in SliceIds : add_account(t, id)
        \/ \E h \in Handshakes : start(t, h, SliceThreads)

SlicePoll ==
    \E m \in SliceThreads :
        \/ monitor_loop_check(m)
        \/ update_all_accounts_upto(m, SliceTicks)
        \/ \E d \in DetailsOne, p \in PositionsFew, tr \in TradesFew :
               update_account(m, d, p, tr)
        \/ update_all_accounts_finish(m)
        \/ monitor_loop_sleep(m)

NextSlice == SlicePoll \/ SliceControl

SpecSlice == Init /\ [][NextSlice]_vars

(* The engine with callbacks registered by its caller, some of which    *)
(* raise.                                                               *)
CallbackThreads == {"m1"}
CallbackCallers == {"c1"}
CallbackIds == {1001}
CallbackKinds == {"ok", "raise"}

CallbackControl ==
    \E t \in CallbackCallers :
        \/ \E id \in CallbackIds : add_account(t, id)
        \/ \E kind \in CallbackKinds : add_callback(t, kind)
        \/ \E h \in Handshakes : start(t, h, CallbackThreads)
        \/ stop(t)

CallbackPoll == PollLoop(CallbackThreads, DetailsFew, PositionsOne, TradesOne)

NextCallback == CallbackPoll \/ CallbackControl

SpecCallback == Init /\ [][NextCallback]_vars

(* The registry edited by one caller while the poll loop refreshes it:   *)
(* the operations made are recorded.                                    *)
RegistryControl ==
    \E t \in EngineCallers :
        \/ \E id \in Ids : add_account(t, id)
        \/ \E id \in Ids : remove_account(t, id)
        \/ \E h \in Handshakes : start(t, h, EngineThreads)

RegistryPoll == PollLoop(EngineThreads, DetailsOne, PositionsOne, TradesOne)

NextRegistry == RegistryPoll \/ RegistryControl

SpecRegistry == InitLogged /\ [][NextRegistry]_vars

(* The life cycle of the engine: one caller starts and stops it, the     *)
(* stopped loop thread may still be alive when it is started again; a    *)
(* second caller takes fleet snapshots.                                  *)
LifecycleIds == {1001}

LifecycleControl ==
    \/ \E h \in Handshakes : start("c1", h, MonThreads)
    \/ stop("c1")
    \/ \E id \in LifecycleIds : add_account("c1", id)
    \/ call_get_all_accounts_snapshot("c2")
    \/ FleetSnapshot("c2")

LifecyclePoll == PollLoop(MonThreads, DetailsOne, PositionsOne, TradesOne)

NextLifecycle == LifecyclePoll \/ LifecycleControl

SpecLifecycle == InitLogged /\ [][NextLifecycle]_vars

\* each started loop thread keeps running
FairSpecLifecycle ==
    SpecLifecycle
    /\ \A m \in MonThreads :
           WF_vars(PollLoop({m}, DetailsOne, PositionsOne, TradesOne))

(* The control protocol: one subscriber sending commands of every kind,  *)
(* well formed or not, to the server while the poll loop runs.           *)
ProtoFrames == 3          \* frames delivered in a run of the control protocol
ProtoTicks == 1           \* ticks in a run of the control protocol
ProtoSubs == {"s1"}
\* the login_id values sent: a registered id, zero, a word
ProtoLogins == <<JInt(1001), JInt(0), JStr("abc")>>

ProtoMessages ==
    <<Text,
      Json([type |-> "get_stats"]),
      Json([type |-> "subscribe"])>>
    \o [i \in 1..3 |-> Json([type |-> "add_account", login_id |-> ProtoLogins[i]])]
    \o [i \in 1..3 |-> Json([type |-> "remove_account", login_id |-> ProtoLogins[i]])]
    \o [i \in 1..3 |-> Json([type |-> "get_snapshot", login_id |-> ProtoLogins[i]])]

ProtoLoop ==
    \/ \E s \in ProtoSubs : register_client(s)
    \/ FleetSnapshot(LoopThread)
    \/ register_client_send
    \/ \E s \in ProtoSubs, i \in DOMAIN ProtoMessages :
           handle_client_message_upto(s, ProtoMessages[i], ProtoFrames)
    \/ handle_get_snapshot_send
    \/ \E s \in ProtoSubs : handle_client_exit(s)

ProtoNetwork ==
    \/ \E h \in Handshakes : ws_start(h, WsThreads)
    \/ \E s \in ProtoSubs : connect(s)
    \/ \E s \in ProtoSubs : peer_close(s)

ProtoPoll ==
    \E m \in WsThreads :
        \/ monitor_loop_check(m)
        \/ update_all_accounts_upto(m, ProtoTicks)
        \/ \E d \in DetailsOne, p \in PositionsOne, tr \in TradesOne :
               update_account(m, d, p, tr)
        \/ update_all_accounts_finish(m)
        \/ monitor_loop_sleep(m)

NextProto == ProtoLoop \/ ProtoNetwork \/ ProtoPoll

SpecProto == InitLogged /\ [][NextProto]_vars

(* The export of the monitoring data by the caller that monitors one     *)
(* account with a long list of closed trades.                            *)
ManyTrades == 150
ExportIds == {1001}
TradesMany == {ListOut([i \in 1..ManyTrades |-> "t1"])}

ExportControl ==
    \E t \in EngineCallers :
        \/ \E id \in ExportIds : add_account(t, id)
        \/ \E h \in Handshakes : start(t, h, EngineThreads)
        \/ stop(t)
        \/ \E id \in ExportIds : get_account_snapshot(t, id)

Export ==
    \E t \in EngineCallers :
        \/ export_data(t)
        \/ FleetSnapshot(t)
        \/ export_data_finish(t)

ExportPoll == PollLoop(EngineThreads, DetailsOne, PositionsOne, TradesMany)

NextExport == ExportPoll \/ ExportControl \/ Export

SpecExport == Init /\ [][NextExport]_vars

\* the exporting thread and the poll loop thread keep running
FairSpecExport == SpecExport /\ WF_vars(Export) /\ WF_vars(ExportPoll)

(***************************************************************************)
(* Properties                                                              *)
(***************************************************************************)

\* thread t is inside get_all_accounts_snapshot, holds the registry lock and
\* its next step is get_account_snapshot's acquisition of that same lock
SelfBlocked(t) ==
    /\ pc[t] = "snap_loop"
    /\ lock = t
    /\ snap_i[t] <= Len(acct_order)

\* C1: a fleet snapshot request never blocks on the registry guard that the
\* requesting thread itself already holds (so that it can return its mapping
\* and release the guard), also when the registry holds an account.
C1_FleetSnapshotNeverSelfBlocks ==
    \A t \in Threads : ~SelfBlocked(t)

\* C2: while the engine is running, ticks keep completing: from every state
\* where the engine runs with n completed ticks (n below the tick bound of
\* the model), a state with more than n completed ticks, or a stopped
\* engine, is eventually reached, whatever the control callers do.
C2_TicksKeepCompleting ==
    \A n \in 0..(MaxTicks - 1) :
        (running /\ stats.total_updates = n)
            ~> (stats.total_updates > n \/ ~running)

\* C6: once remove(id) has returned and id has not been added again, the
\* list being built by a tick holds no entry for id.
C6_NoEntryAfterRemove ==
    \A m \in MonThreads :
        pc[m] = "loop" =>
            \A k \in DOMAIN accounts_data[m] :
                accounts_data[m][k].account.login_id \notin removed_ids

\* C6 witness: an account was removed, and a later tick has built a complete,
\* non-empty list
C6_Witness ==
    \E m \in MonThreads :
        /\ pc[m] = "loop"
        /\ tick_i[m] > Len(acct_order)
        /\ accounts_data[m] # <<>>
        /\ removed_ids # {}
        /\ stats.total_updates >= 1

\* C3: a subscriber that was accepted and keeps its connection open
\* eventually has an `initial` frame as the first frame it received, whatever
\* the registry holds at that time.
C3_InitialFrameOnAccept ==
    \A s \in Subs :
        (hpc[s] = "accepted" /\ conn[s] = "open")
            ~> (conn[s] = "closed"
                \/ (Len(frames[s]) >= 1 /\ frames[s][1].type = "initial"))

\* C4: every tick completed while a subscriber is in the connection set
\* leaves a fan-out task on the event loop whose `update` message carries
\* the list built by that tick.
C4_TickFansOut ==
    [][\A m \in MonThreads :
          (pc[m] = "loop" /\ pc'[m] = "sleep" /\ clients # {}) =>
              /\ bcast'.state = "ready"
              /\ bcast'.message.type = "update"
              /\ bcast'.message.data = accounts_data[m]]_vars

\* C5: when a broadcast has ended, every subscriber whose send failed is out
\* of the connection set, and every other subscriber of the set the
\* broadcast began with that is still connected has received the frame.
C5_BroadcastReachesOthers ==
    bcast.state \in {"done", "crashed"} =>
        /\ bcast.disconnected \cap clients = {}
        /\ \A c \in bcast.members \cap clients :
               conn[c] = "open" => c \in bcast.sent

\* what get_total_exposure_by_symbol returns in the current state
Exposure == exposure_by_symbol(acct_order, monitors, <<>>)

\* the stored positions of account id
Stored(id) == monitors[id].positions.positions

\* the symbol a position is listed under: the empty one when it has none
SymbolOf(pos) == Get(pos, "symbol", "")

RECURSIVE SignedVolume(_)
\* sum of +volume for a buy (type 0) and -volume for a sell (type 1)
SignedVolume(positions) ==
    IF positions = <<>> THEN 0
    ELSE LET pos == Head(positions)
         IN (IF Get(pos, "type", 0) = 0 THEN Get(pos, "volume", 0)
             ELSE 0 - Get(pos, "volume", 0))
            + SignedVolume(Tail(positions))

\* every stored position has the lowercase keys symbol, volume and type
WellFormed ==
    \A id \in DOMAIN monitors : \A i \in DOMAIN Stored(id) :
        {"symbol", "volume", "type"} \subseteq DOMAIN Stored(id)[i]

\* caller t holds the exposure that get_total_exposure_by_symbol returned
\* to it for the registry as it is
HoldsExposure(t) == ret[t].kind = "exposure" /\ ret[t].val = Exposure

\* C7: when every stored position carries symbol, volume and type, the
\* volume that exposure_by_symbol() returns for a symbol S is the sum of
\* the signed volumes (+volume for a buy, -volume for a sell) of the
\* positions that positions_by_symbol(S) returns.
C7_ExposureIsSignedSum ==
    \A t \in Callers :
        (HoldsExposure(t) /\ WellFormed) =>
            \A S \in DOMAIN ret[t].val :
                ret[t].val[S].volume =
                    SignedVolume(positions_by_symbol_result(acct_order, monitors, S))

\* the positions of account id listed under symbol S
Listed(id, S) == {i \in DOMAIN Stored(id) : SymbolOf(Stored(id)[i]) = S}

RECURSIVE SumOver(_, _)
SumOver(f, S) ==
    IF S = {} THEN 0
    ELSE LET x == CHOOSE y \in S : TRUE IN f[x] + SumOver(f, S \ {x})

\* C8: for every listed symbol S, accounts is the number of records holding
\* a position listed under S, positions is the number of positions listed
\* under S over all records, and positions >= accounts >= 1; a position
\* without symbol field is listed under the empty symbol.
C8_ExposureCounts ==
    \A t \in Callers :
        HoldsExposure(t) =>
            \A S \in DOMAIN ret[t].val :
                LET e == ret[t].val[S] IN
                /\ e.accounts =
                       Cardinality({id \in DOMAIN monitors : Listed(id, S) # {}})
                /\ e.positions =
                       SumOver([id \in DOMAIN monitors |-> Cardinality(Listed(id, S))],
                               DOMAIN monitors)
                /\ e.positions >= e.accounts
                /\ e.accounts >= 1

\* the lowercase name of a position key
LowerKey(k) ==
    IF k = "Symbol" THEN "symbol" ELSE IF k = "Vol" THEN "volume"
    ELSE IF k = "Type" THEN "type" ELSE k

\* the same position keyed symbol / volume / type
Lowered(pos) ==
    [k \in {LowerKey(j) : j \in DOMAIN pos} |->
        pos[CHOOSE j \in DOMAIN pos : LowerKey(j) = k]]

LoweredMonitors ==
    [id \in DOMAIN monitors |->
        [monitors[id] EXCEPT !.positions.positions =
            [i \in DOMAIN @ |-> Lowered(@[i])]]]

\* C9: the exposure that exposure_by_symbol() returns for the stored
\* positions equals the exposure computed for the same positions keyed
\* symbol / volume / type.
C9_KeyCasingEquivalent ==
    \A t \in Callers :
        HoldsExposure(t) =>
            ret[t].val = exposure_by_symbol(acct_order, LoweredMonitors, <<>>)

\* position of account id in the registry's insertion order
InsertionIndex(id) == CHOOSE i \in DOMAIN acct_order : acct_order[i] = id

\* the stored positions of account id matching symbol, tagged with id
TaggedMatches(id, symbol) ==
    LET matches == SelectSeq(Stored(id),
                       LAMBDA pos : "symbol" \in DOMAIN pos /\ pos["symbol"] = symbol)
    IN [i \in DOMAIN matches |-> Tag(matches[i], id)]

\* r lists exactly the positions matching symbol, tagged, account after
\* account in the order the accounts were added, stored order within one
InInsertionOrder(r, symbol) ==
    /\ \A i \in DOMAIN r : r[i].login_id \in DOMAIN monitors
    /\ \A i, j \in DOMAIN r :
           i < j => InsertionIndex(r[i].login_id) <= InsertionIndex(r[j].login_id)
    /\ \A id \in DOMAIN monitors :
           SelectSeq(r, LAMBDA pos : pos.login_id = id) = TaggedMatches(id, symbol)

\* C10 (as amended): positions_by_symbol(s) returns exactly the positions
\* whose symbol field equals s across all records, each tagged with its
\* account id, the accounts in the order in which they were added to the
\* registry, and in stored order within one account.
C10_PositionsInInsertionOrder ==
    \A symbol \in Symbols :
        InInsertionOrder(positions_by_symbol_result(acct_order, monitors, symbol),
                         symbol)

\* C10 (as stated): the positions that positions_by_symbol(s) returns are
\* ordered by account id ascending, whatever the order of the adds.
C10_PositionsByIdAscending ==
    \A symbol \in Symbols :
        LET r == positions_by_symbol_result(acct_order, monitors, symbol)
        IN \A i, j \in DOMAIN r : i < j => r[i].login_id <= r[j].login_id

\* C10 witness: a caller got from get_positions_by_symbol a list that holds
\* positions of two accounts, the one added first having the greater id
C10_Witness ==
    \E t \in Callers :
        /\ ret[t].kind = "positions"
        /\ ret[t].val = positions_by_symbol_result(acct_order, monitors, ret[t].symbol)
        /\ \E i, j \in DOMAIN ret[t].val :
               /\ i < j
               /\ ret[t].val[i].login_id > ret[t].val[j].login_id

\* C11: a step in which a caller gets the result of positions_by_symbol(s)
\* or of exposure_by_symbol() (no poll-loop thread moves in it) leaves the
\* registry and every stored position mapping unchanged, so that a snapshot
\* of an account taken after the call equals one taken before it.
C11_AggregatorCallsArePure ==
    [][\A t \in Callers :
          (ret'[t].kind \in {"positions", "exposure"} /\ UNCHANGED <<pc, tick_i>>)
              => UNCHANGED <<acct_order, monitors>>]_vars

\* number of the ticks a, a+1, ..., b-1 whose index is a multiple of
\* TradesCycle
DueTicks(a, b) ==
    Cardinality({k \in a..(b - 1) : k % TradesCycle = 0})

\* C12: whenever no tick is in progress and K ticks have completed, an
\* account that was in the registry during all K ticks has had exactly
\* ceil(K/5) closed-trades fetch attempts, and an account added when `since`
\* ticks had completed has had one attempt for each of the ticks since,
\* since+1, ..., K-1 whose index is a multiple of 5 and none in the others.
C12_TradesCadence ==
    (\A m \in MonThreads : pc[m] # "loop") =>
        \A id \in DOMAIN trade_log :
            LET K == stats.total_updates IN
            /\ trade_log[id].fetches = DueTicks(trade_log[id].since, K)
            /\ trade_log[id].since = 0 =>
                   trade_log[id].fetches = (K + TradesCycle - 1) \div TradesCycle

\* C12 witness: eleven ticks have completed and an account that was present
\* in all of them has had three closed-trades fetch attempts
C12_Witness ==
    /\ \A m \in MonThreads : pc[m] # "loop"
    /\ stats.total_updates = 11
    /\ \E id \in DOMAIN trade_log :
           trade_log[id].since = 0 /\ trade_log[id].fetches = 3

\* thread m handles one account of its tick in this step; rpc' then holds
\* the broker results of that account
Handles(m) == pc[m] = "loop" /\ tick_i'[m] = tick_i[m] + 1

DetailFields ==
    {"balance", "equity", "margin", "free_margin", "margin_level", "profit",
     "group", "leverage"}

DetailDefault(f) == IF f = "group" THEN "" ELSE 0

\* C13: the details fetch of a refresh has three outcomes.  On a non-empty
\* result every detail field takes the fetched value (its default where the
\* result has none), status becomes active and last_update the time of the
\* refresh; on an empty result status becomes unavailable, on an RPC failure
\* error, and in both every detail field and last_update keep their values.
C13_DetailsOutcomes ==
    [][\A m \in MonThreads :
          Handles(m) =>
              LET id == rpc'.login_id
                  out == rpc'.details
                  a == monitors[id].account
                  b == monitors'[id].account
              IN /\ b.login_id = a.login_id
                 /\ out.kind = "ok" =>
                        /\ b.status = "active"
                        /\ b.last_update = clock
                        /\ \A f \in DetailFields :
                               b[f] = Get(out.val, f, DetailDefault(f))
                 /\ out.kind \in {"empty", "raise"} =>
                        /\ b.status = IF out.kind = "empty" THEN "unavailable"
                                      ELSE "error"
                        /\ b.last_update = a.last_update
                        /\ \A f \in DetailFields : b[f] = a[f]]_vars

\* C13 witness: the details fetch of an account refreshed before has just
\* failed (or given nothing) and the record shows the failure with the
\* values of the earlier refresh
C13_Witness ==
    /\ rpc.login_id \in DOMAIN monitors
    /\ rpc.details.kind \in {"empty", "raise"}
    /\ LET a == monitors[rpc.login_id].account
       IN /\ a.status \in {"unavailable", "error"}
          /\ a.balance = D2.balance
          /\ a.last_update >= 1

\* C14: when the positions fetch of an account fails with an RPC error the
\* stored positions slice and its update timestamp stay as they were, and
\* when it succeeds the slice is the fetched list; the same for the
\* closed-trades fetch and the closed-trades slice.
C14_SliceKeptOnFailure ==
    [][\A m \in MonThreads :
          Handles(m) =>
              LET id == rpc'.login_id
                  p == monitors[id].positions
                  q == monitors'[id].positions
                  t == monitors[id].trades
                  u == monitors'[id].trades
              IN /\ rpc'.positions.kind = "raise" => q = p
                 /\ rpc'.positions.kind = "ok" => q.positions = rpc'.positions.val
                 /\ rpc'.trades.kind = "raise" => u = t
                 /\ rpc'.trades.kind = "ok" => u.trades = rpc'.trades.val]_vars

\* C14 witness: the positions fetch and the closed-trades fetch of an
\* account have just failed, and the record still holds the positions and
\* the closed trades of an earlier tick with their timestamps
C14_Witness ==
    /\ rpc.login_id \in DOMAIN monitors
    /\ rpc.positions.kind = "raise"
    /\ rpc.trades.kind = "raise"
    /\ LET r == monitors[rpc.login_id]
       IN /\ r.positions.positions # <<>>
          /\ r.positions.last_update >= 1
          /\ r.trades.trades # <<>>
          /\ r.trades.last_update >= 1

NoTickInProgress == \A m \in MonThreads : pc[m] # "loop"

\* C16: the errors counter counts every failed sub-fetch and every callback
\* invocation that raised, one each.  Hence, between ticks, it is at least
\* the number of records whose last details fetch failed or gave nothing
\* (status not active) plus the number of callbacks that raised in the last
\* tick.
C16_ErrorsCountFailures ==
    NoTickInProgress =>
        stats.errors >=
            Cardinality({id \in DOMAIN monitors :
                            monitors[id].account.status # "active"})
            + Cardinality({i \in DOMAIN cb_log : cb_log[i].raised})

\* C17: in the step that completes a tick every registered callback is
\* invoked exactly once, in registration order, with the list the tick
\* built, also after a callback that raised; and the thread goes on to the
\* sleep of the poll loop.
C17_EveryCallbackInvoked ==
    [][\A m \in MonThreads :
          (pc[m] = "loop" /\ stats'.total_updates = stats.total_updates + 1) =>
              /\ Len(cb_log') = Len(callbacks)
              /\ \A i \in DOMAIN callbacks :
                     /\ cb_log'[i].kind = callbacks[i]
                     /\ cb_log'[i].data = accounts_data[m]
              /\ pc'[m] = "sleep"]_vars

\* C17 witness: in the last tick the first callback raised, the second was
\* invoked with a non-empty list, and the poll loop has gone on
C17_Witness ==
    /\ Len(cb_log) = 2
    /\ cb_log[1].raised
    /\ cb_log[2].kind = "ok"
    /\ cb_log[2].data # <<>>
    /\ \E m \in MonThreads : pc[m] = "check" /\ stats.total_updates >= 1

\* thread m completes its tick in this step
Completes(m) == pc[m] = "loop" /\ pc'[m] = "sleep"

\* C18: total_updates never decreases; it changes only in the step that
\* completes a tick, and there it increases by exactly one, whether or not
\* the engine was stopped and started in between.
C18_TotalUpdatesCountsTicks ==
    [][/\ stats'.total_updates >= stats.total_updates
       /\ stats'.total_updates # stats.total_updates =>
              \E m \in MonThreads : Completes(m)
       /\ \A m \in MonThreads :
              Completes(m) => stats'.total_updates = stats.total_updates + 1]_vars

\* C18 witness: two ticks have completed, one of them on an empty registry,
\* and the engine has been stopped
C18_Witness ==
    /\ stats.total_updates = 2
    /\ ~running
    /\ \A m \in MonThreads : pc[m] = "none"
    /\ acct_order = <<>>

\* C19: a tick executed on an empty registry completes, increments
\* total_updates by one and leaves on the event loop a fan-out task whose
\* `update` message carries the empty list.
C19_EmptyTickEmitsUpdate ==
    [][\A m \in MonThreads :
          (Completes(m) /\ acct_order = <<>>) =>
              /\ stats'.total_updates = stats.total_updates + 1
              /\ bcast'.state = "ready"
              /\ bcast'.message.type = "update"
              /\ bcast'.message.data = <<>>
              /\ bcast'.message.timestamp = clock]_vars

\* C20: in the state a tick leaves when it completes, every record of the
\* registry has a details last_update no older than the start of the tick
\* or a status different from active.
C20_FreshOrNotActive ==
    [][\A m \in MonThreads :
          Completes(m) =>
              \A id \in DOMAIN monitors' :
                  \/ monitors'[id].account.last_update >= clock
                  \/ monitors'[id].account.status # "active"]_vars

\* C20 witness: a tick has just completed in which the details fetch of a
\* record refreshed by an earlier tick failed, and that of another succeeded
C20_Witness ==
    /\ \E m \in MonThreads : pc[m] = "sleep"
    /\ \E id \in DOMAIN monitors :
           /\ monitors[id].account.status # "active"
           /\ monitors[id].account.last_update >= 1
           /\ monitors[id].account.last_update < clock
    /\ \E id \in DOMAIN monitors :
           /\ monitors[id].account.status = "active"
           /\ monitors[id].account.last_update = clock

\* this step is a recorded control operation
Called(op) == call'.seq # call.seq /\ call'.op = op

\* C21: add(id) on a registered id and remove(id) on an absent id change
\* neither the registry nor any record nor the counters, and no add or
\* remove makes a broker call.
C21_RegistryIdempotent ==
    [][/\ (Called("add_account") /\ call'.arg \in DOMAIN monitors) =>
              UNCHANGED <<acct_order, monitors, stats, trade_log, rpc>>
       /\ (Called("remove_account") /\ call'.arg \notin DOMAIN monitors) =>
              UNCHANGED <<acct_order, monitors, stats, trade_log, rpc>>
       /\ (Called("add_account") \/ Called("remove_account")) =>
              /\ rpc' = rpc
              /\ \A id \in DOMAIN trade_log \cap DOMAIN trade_log' :
                     trade_log'[id] = trade_log[id]]_vars

\* C21 witness: the last operation was an add of an id whose record held
\* fetched details, positions and trades, and the record is as it was
C21_Witness ==
    /\ call.op = "add_account"
    /\ call.pre # <<>>
    /\ call.pre[1].account.last_update >= 1
    /\ call.pre[1].positions.positions # <<>>
    /\ call.pre[1].trades.last_update >= 1
    /\ call.arg \in DOMAIN monitors
    /\ monitors[call.arg] = call.pre[1]

\* C22: stats.monitored_count is the number of records in the registry.
C22_MonitoredCountIsRegistrySize ==
    /\ stats.monitored_count = Cardinality(DOMAIN monitors)
    /\ stats.monitored_count = Len(acct_order)

\* C22 witness: after adds, a remove and a tick, one record is left
C22_Witness ==
    /\ removed_ids # {}
    /\ stats.monitored_count = 1
    /\ stats.total_updates >= 1
    /\ call.op = "remove_account"
    /\ call.pre # <<>>

\* the poll loop threads that are alive
Alive == {m \in MonThreads : pc[m] # "none"}

Failure == [kind |-> "bool", val |-> FALSE]

\* C23: start() called while the engine is running returns failure, launches
\* no poll loop and leaves the running flag and the loop threads as they are.
C23_StartWhileRunning ==
    [][(Called("start") /\ running) =>
           /\ ret'[call'.by] = Failure
           /\ running'
           /\ \A m \in MonThreads : pc'[m] = pc[m]
           /\ UNCHANGED <<acct_order, monitors, stats, lock>>]_vars

\* C23 witness: the last operation was a start() that found the engine
\* running with its one loop in a tick
C23_Witness ==
    /\ call.op = "start"
    /\ call.pre
    /\ ret[call.by] = Failure
    /\ running
    /\ Cardinality(Alive) = 1
    /\ \E m \in Alive : pc[m] = "loop"

\* C24: start() whose handshake fails returns failure, leaves the running
\* flag false and launches no poll loop.
C24_StartFailsOnHandshake ==
    [][(Called("start") /\ manager = "none" /\ call'.arg # "ok") =>
           /\ ret'[call'.by] = Failure
           /\ ~running /\ ~running'
           /\ \A m \in MonThreads : pc'[m] = pc[m]]_vars

\* C24 witness: the last operation was a start() whose handshake gave a
\* manager without connection; the engine is stopped and no loop is alive
C24_Witness ==
    /\ call.op = "start"
    /\ call.arg = "dead"
    /\ ~call.pre
    /\ ret[call.by] = Failure
    /\ manager = "dead"
    /\ ~running
    /\ Alive = {}

\* the engine is stopped, loop threads are still alive and each of them can
\* make one more tick within the run
Stopping ==
    /\ ~running
    /\ Alive # {}
    /\ stats.total_updates + Cardinality(Alive) <= MaxTicks

\* C25: once the engine is stopped, and unless it is started again, every
\* loop thread terminates; a loop starts a tick only having read the flag as
\* true, and never leaves in the middle of a tick.
C25_StopEndsLoop ==
    /\ [][\A m \in MonThreads :
             /\ (pc[m] = "check" /\ pc'[m] = "tick") => running
             /\ (pc[m] \in {"tick", "loop"}) => pc'[m] # "none"]_vars
    /\ Stopping ~> (running \/ Alive = {})

\* the loop threads that are in a tick or asleep between two ticks
Ticking == {m \in MonThreads : pc[m] \in {"loop", "sleep"}}

\* C26: a poll loop that is in a tick or asleep between two ticks is the
\* only poll loop alive.
C26_OneLoopAlive == Ticking # {} => Cardinality(Alive) = 1

\* this step handles a message received on an open connection
Received == Called("message") /\ call'.pre

\* the message handled in this step is a command of type ty
Command(ty) ==
    /\ Received
    /\ call'.arg.kind = "json"
    /\ call'.arg.data.type = ty

\* the login_id the command handled in this step carries
LoginOf == Get(call'.arg.data, "login_id", NoField)

\* the subscriber is sent exactly this frame in this step
Sent(s, frame) == frames'[s] = Append(frames[s], frame)

\* the subscriber is sent exactly one frame in this step, of this type
SentType(s, ty) ==
    /\ Len(frames'[s]) = Len(frames[s]) + 1
    /\ \A i \in DOMAIN frames[s] : frames'[s][i] = frames[s][i]
    /\ frames'[s][Len(frames'[s])].type = ty

\* C27: an add_account command with an integer login_id leaves the id in
\* the registry, a remove_account command with an integer login_id leaves
\* it out, and each is answered with exactly one success frame.
C27_AddRemoveAcknowledged ==
    [][/\ (Command("add_account") /\ LoginOf.t = "int") =>
              /\ LoginOf.v \in DOMAIN monitors'
              /\ SentType(call'.by, "success")
       /\ (Command("remove_account") /\ LoginOf.t = "int") =>
              /\ LoginOf.v \notin DOMAIN monitors'
              /\ SentType(call'.by, "success")]_vars

\* the message handled in this step cannot be parsed, or its handling raises
Malformed ==
    /\ Received
    /\ \/ call'.arg.kind = "text"
       \/ /\ call'.arg.data.type \in {"add_account", "remove_account", "get_snapshot"}
          /\ Truthy(LoginOf)
          /\ IntRaises(LoginOf)

\* C28: a message that cannot be parsed, or whose handling raises, is
\* answered with one error frame, and the subscriber stays connected,
\* registered and served.
C28_ErrorKeepsConnection ==
    [][Malformed =>
           /\ SentType(call'.by, "error")
           /\ conn'[call'.by] = "open"
           /\ call'.by \in clients'
           /\ hpc'[call'.by] = "serving"
           /\ UNCHANGED <<acct_order, monitors, stats>>]_vars

\* C28 witness: the subscriber was sent an error frame for a message that
\* could not be parsed and for one whose handling raised, the second one
\* after the first
C28_Witness ==
    \E s \in Subs :
        /\ Len(frames[s]) = 3
        /\ frames[s][2] = error_frame("Invalid JSON")
        /\ frames[s][3] = error_frame("ValueError")
        /\ s \in clients
        /\ hpc[s] = "serving"

\* C29: a remove_account or get_snapshot command naming an id that is not
\* registered leaves the registry unchanged and is answered, never with an
\* error frame: remove_account with success, get_snapshot with a snapshot
\* frame without data.
C29_UnknownIdIsNoError ==
    [][/\ (Command("remove_account") /\ LoginOf.t = "int"
            /\ LoginOf.v \notin DOMAIN monitors) =>
              /\ SentType(call'.by, "success")
              /\ UNCHANGED <<acct_order, monitors, stats>>
       /\ (Command("get_snapshot") /\ LoginOf.t = "int"
            /\ LoginOf.v \notin DOMAIN monitors) =>
              /\ SentType(call'.by, "snapshot")
              /\ frames'[call'.by][Len(frames'[call'.by])].data = NoneVal
              /\ UNCHANGED <<acct_order, monitors, stats>>]_vars

\* C30: every frame a subscriber has been sent has a type field and a
\* timestamp field.
C30_FramesCarryTypeAndTimestamp ==
    \A s \in Subs : \A i \in DOMAIN frames[s] :
        {"type", "timestamp"} \subseteq DOMAIN frames[s][i]

\* thread t is in export_data, on a registry that holds an account with
\* more closed trades than a snapshot lists
Exporting(t) ==
    /\ after[t] = "export_exposure"
    /\ pc[t] \in {"snap_call", "snap_loop", "export_exposure"}
    /\ \E id \in DOMAIN monitors : Len(monitors[id].trades.trades) = ManyTrades

\* C31: export_data called on an engine that monitors an account returns
\* success with a document in which each account's trades list has
\* min(100, number of stored trades) entries and trade_count the full number.
C31_ExportCompletes ==
    \A t \in Callers :
        Exporting(t) ~>
            /\ ret[t].kind = "export"
            /\ ret[t].ok
            /\ \A id \in DOMAIN ret[t].accounts :
                   LET tr == ret[t].accounts[id].trades
                   IN /\ tr.trade_count = Len(monitors[id].trades.trades)
                      /\ Len(tr.trades) = Min(TradesLimit, tr.trade_count)

\* C32: a record whose details were fetched has the margin level
\* 100 * equity / margin of its equity and margin, and 0 on a zero margin.
C32_MarginLevelLaw ==
    \A id \in DOMAIN monitors :
        LET a == monitors[id].account IN
        a.last_update >= 1 =>
            /\ a.margin_level = calculate_margin_level(a.equity, a.margin)
            /\ AccountMonitor_to_dict(a).margin_level =
                   calculate_margin_level(a.equity, a.margin)

\* C33: the step in which a tick makes the broker calls of an account is
\* taken with the registry lock free, so that no add, remove or snapshot
\* waits for a broker call.
C33_NoRpcUnderLock ==
    [][\A m \in MonThreads :
          (Handles(m) /\ rpc'.login_id \in DOMAIN monitors) => lock = "free"]_vars

\* C34: while a broadcast is iterating over the subscriber set, the set is
\* not changed, and no broadcast ends because the set changed size.
C34_StableSubscriberSet ==
    [][/\ (bcast.state = "iter" /\ bcast'.state = "iter") => clients' = clients
       /\ bcast'.state # "crashed"]_vars

\* C35: a thread inside the registry loop of a tick holds the lock, so no
\* two ticks are inside it together, and total_updates, which the test for
\* the closed-trades fetch reads, does not change while a tick is inside it.
C35_TicksDoNotOverlap ==
    [][\A m \in MonThreads :
          /\ pc[m] = "loop" => lock = m
          /\ pc'[m] = "loop" => lock' = m
          /\ (pc[m] = "loop" /\ pc'[m] = "loop") =>
                 stats'.total_updates = stats.total_updates]_vars

\* C35 witness: two loop threads are alive; one has refreshed an account in
\* its second tick and is still inside the loop, the other has passed its
\* flag test and waits to begin its tick
C35_Witness ==
    \E m, n \in MonThreads :
        /\ pc[m] = "loop"
        /\ tick_i[m] > 1
        /\ pc[n] = "tick"
        /\ stats.total_updates >= 1

\* "manager.get_closed_trades(self.login_id, self.from_date)": the cutoff
\* that a closed-trades fetch of account id passes to the broker
closed_trades_cutoff(id) == monitors[id].trades.from_date

\* C36: every closed-trades fetch passes the cutoff (time of the fetch -
\* history window), so the cutoff follows the clock from fetch to fetch.
C36_CutoffFollowsClock ==
    [][\A m \in MonThreads :
          (Handles(m) /\ rpc'.trades.kind # "skipped") =>
              closed_trades_cutoff(rpc'.login_id) = clock - HistoryWindow]_vars

\* C37: the engine is running (running flag set or a poll loop alive) only
\* with a manager whose handshake succeeded; a start() after a failed
\* handshake does not launch a loop on the manager left by the failure.
C37_RunningOnlyAfterHandshake ==
    (running \/ Alive # {}) => manager = "ok"

\* the frame types that answer a command of type ty
ReplyTypes(ty) ==
    {"error"} \cup
    (IF ty \in {"add_account", "remove_account"} THEN {"success"}
     ELSE IF ty = "get_snapshot" THEN {"snapshot"}
     ELSE IF ty = "get_exposure" THEN {"exposure"}
     ELSE IF ty = "get_stats" THEN {"stats"}
     ELSE {})

\* C38: every message that parses as a JSON object is answered with exactly
\* one frame to its sender, a reply of the matching type or an error frame
\* (for get_snapshot of the whole fleet, the handler has at least begun the
\* snapshot whose frame follows), whatever the command and its login_id.
C38_EveryCommandAnswered ==
    [][(Received /\ call'.arg.kind = "json") =>
           \/ \E ty \in ReplyTypes(call'.arg.data.type) : SentType(call'.by, ty)
           \/ /\ call'.arg.data.type = "get_snapshot"
              /\ cur' = call'.by
              /\ pc'[LoopThread] = "snap_call"]_vars

\* the accounts whose record was refreshed from a successful details fetch
\* at the present instant
DetailsSucceeded ==
    {id \in DOMAIN monitors : monitors[id].account.last_update = clock}

\* C39: in a tick, an account whose details fetch succeeded adds exactly one
\* entry, its own, to the list for the callbacks, and an account whose
\* details fetch was empty or failed adds none, whatever its positions fetch
\* gave; the list handed over at the end of the tick has one entry for each
\* account refreshed in the tick and no other.
C39_ListHasSucceededAccounts ==
    [][\A m \in MonThreads :
          /\ Handles(m) =>
                 IF rpc'.details.kind = "ok"
                 THEN /\ Len(accounts_data'[m]) = Len(accounts_data[m]) + 1
                      /\ SubSeq(accounts_data'[m], 1, Len(accounts_data[m])) = accounts_data[m]
                      /\ accounts_data'[m][Len(accounts_data'[m])].account.login_id
                             = rpc'.login_id
                 ELSE accounts_data'[m] = accounts_data[m]
          /\ Completes(m) =>
                 /\ {accounts_data[m][i].account.login_id : i \in DOMAIN accounts_data[m]}
                        = DetailsSucceeded
                 /\ Len(accounts_data[m]) = Cardinality(DetailsSucceeded)]_vars

\* C39 witness: a tick over two accounts has completed; the list it handed
\* over has one entry, and the account left out had its details fetch fail
\* or come back empty while its positions fetch succeeded in the same tick
C39_Witness ==
    \E m \in MonThreads : \E id \in DOMAIN monitors :
        /\ pc[m] = "sleep"
        /\ stats.last_update = clock
        /\ Len(acct_order) = 2
        /\ Len(accounts_data[m]) = 1
        /\ accounts_data[m][1].account.login_id # id
        /\ monitors[id].account.status \in {"error", "unavailable"}
        /\ monitors[id].positions.last_update = clock
        /\ monitors[id].positions.positions # <<>>

====
